---- MODULE Spec2Model ----
(***************************************************************************)
(* Model of package logger (src/logger.go): the reload/destroy lifecycle   *)
(* (Reload, Destroy), the signal listener goroutine                        *)
(* (singalChangeLogLevel), the level table (levelMap) and the wiring of    *)
(* the console output and the file hook (setLogger, addLogger,             *)
(* addRotateLogger) onto the logrus standard logger.                       *)
(***************************************************************************)
EXTENDS Naturals, Integers, Sequences, FiniteSets, TLC

\* ------------------------------------------------------------------ bounds

\* Number of contexts (epochs) Reload may create in one run.
MaxEpochs == 3

\* ------------------------------------------------------------- constants

\* mCancel == nil: no context is recorded (contexts are numbered from 1).
NIL == 0

DebugLevel == "debug"
InfoLevel  == "info"
WarnLevel  == "warning"
ErrorLevel == "error"

SIGUSR1 == "SIGUSR1"
SIGUSR2 == "SIGUSR2"
Signals == {SIGUSR1, SIGUSR2}

\* The tasks that call Reload and Destroy (the configuration collaborator).
Tasks == {"cfg"}

\* Every task that can call Reload and Destroy: the collaborator, and another
\* goroutine of the application calling the exported functions on its own.
Callers == {"cfg", "app"}

\* No record has been formatted yet.
NoRecord == [kind |-> "none"]

Epochs == 1..MaxEpochs

\* levelMap as built by init(): four lower-case and four upper-case keys.
levelMap ==
  [n \in {"debug", "info", "warn", "error", "DEBUG", "INFO", "WARN", "ERROR"} |->
     CASE n \in {"debug", "DEBUG"} -> DebugLevel
       [] n \in {"info", "INFO"}   -> InfoLevel
       [] n \in {"warn", "WARN"}   -> WarnLevel
       [] n \in {"error", "ERROR"} -> ErrorLevel]

\* conf as built by init().
DefaultConf ==
  [EnableConsole   |-> TRUE,
   EnableTime      |-> TRUE,
   EnablePos       |-> TRUE,
   EnableColor     |-> TRUE,
   TimestampFormat |-> "2006-01-02 15:04:05",
   LogFile         |-> "log/app.log",
   Level           |-> "info",
   MaxSize         |-> 5,
   MaxDays         |-> 30,
   MaxBackups      |-> 5,
   Compress        |-> TRUE]

\* Level names the configuration may carry: the eight keys of levelMap,
\* mixed-case spellings, and names that are no level at all.
LevelNames ==
  {"debug", "info", "warn", "error", "DEBUG", "INFO", "WARN", "ERROR",
   "Debug", "Warn", "trace", ""}

\* The configurations the collaborator loads into conf before a Reload.
Confs ==
       {[DefaultConf EXCEPT !.Level = l] : l \in LevelNames}
  \cup {[DefaultConf EXCEPT !.MaxBackups = b, !.LogFile = f] :
          b \in {0, 1, 2}, f \in {"log/app.log", "log/b.log"}}
  \cup {[DefaultConf EXCEPT !.EnableConsole = c, !.EnableColor = k,
                            !.EnableTime = k, !.EnablePos = c,
                            !.MaxBackups = 1,
                            !.TimestampFormat = "15:04:05",
                            !.Level = "error"] :
          c \in BOOLEAN, k \in BOOLEAN}

\* ----------------------------------------------------------------- state

VARIABLES
  conf,        \* *LogConf: the configuration section
  mCancel,     \* cancel function of the current context: NIL or its epoch
  wg,          \* sync.WaitGroup counter
  onceDone,    \* sync.Once: whether its function has run
  ctxDone,     \* the contexts whose Done channel is closed
  nextEpoch,   \* the next context Reload creates
  task,        \* per caller: [pc, op, ctx] position, running call, local ctx
  listener,    \* per context: position of its listener goroutine
  handlers,    \* os/signal: per signal, the contexts whose channel is notified
  level,       \* logrus: level of the standard logger
  formatter,   \* logrus: formatter of the standard logger
  out,         \* logrus: output of the standard logger
  hooks,       \* logrus: the hooks added, in order
  lastWriter,  \* which code wrote level last: "init", "conf" or "signal"
  lastSig,     \* last signal delivered since a lifecycle call last returned
  overridden,  \* whether a signal has written level since a Reload last returned
  rendered     \* the last record given to Format with its options and output

vars == <<conf, mCancel, wg, onceDone, ctxDone, nextEpoch, task, listener,
          handlers, level, formatter, out, hooks, lastWriter, lastSig,
          overridden, rendered>>

lifecycle == <<mCancel, wg, ctxDone, nextEpoch, listener, handlers>>
engine    == <<level, formatter, out, hooks, onceDone, lastWriter, overridden>>

\* The package after init(), with the logrus standard logger as logrus
\* creates it.
InitPackage ==
  /\ conf = DefaultConf
  /\ mCancel = NIL
  /\ wg = 0
  /\ onceDone = FALSE
  /\ ctxDone = {}
  /\ nextEpoch = 1
  /\ task = [p \in Callers |-> [pc |-> "idle", op |-> "none", ctx |-> 0, err |-> "none"]]
  /\ listener = [e \in Epochs |-> "none"]
  /\ handlers = [s \in Signals |-> {}]
  /\ level = InfoLevel
  /\ formatter = [kind |-> "TextFormatter"]
  /\ out = "stderr"
  /\ hooks = <<>>
  /\ lastWriter = "init"
  /\ lastSig = "none"
  /\ overridden = FALSE

Init ==
  /\ InitPackage
  /\ rendered = NoRecord

\* --------------------------------------------------------- pure helpers

\* Mutant of LookupLevel: the upper-case keys of the table are not found.
LookupLevel_LowerOnly(name) ==
  IF name \in {"debug", "info", "warn", "error"} THEN levelMap[name] ELSE InfoLevel

\* Mutant of LookupLevel: a name that is no key leaves the level as it is.
LookupLevel_KeepsLevel(name) ==
  IF name \in DOMAIN levelMap THEN levelMap[name] ELSE level

\* level, ok := levelMap[name]; the level when ok, log.InfoLevel otherwise.
LookupLevel(name) ==
  IF name \in DOMAIN levelMap THEN levelMap[name] ELSE InfoLevel

\* The LogFormatter setLogger installs on the standard logger: EnableTime and
\* EnablePos are not set, so they keep Go's zero value.
ConsoleFormatter(c) ==
  [kind            |-> "LogFormatter",
   EnableTime      |-> FALSE,
   EnablePos       |-> FALSE,
   EnableColor     |-> c.EnableColor,
   TimestampFormat |-> "2006-01-02 15:04:05",
   CallerLevel     |-> 7]

\* Mutant of FileFormatter: the file hook's formatter never colours.
FileFormatter_NoColour(c) ==
  [kind            |-> "LogFormatter",
   EnableTime      |-> c.EnableTime,
   EnablePos       |-> c.EnablePos,
   EnableColor     |-> FALSE,
   TimestampFormat |-> "2006-01-02 15:04:05",
   CallerLevel     |-> 10]

\* The LogFormatter addLogger and addRotateLogger give to the file hook.
FileFormatter(c) ==
  [kind            |-> "LogFormatter",
   EnableTime      |-> c.EnableTime,
   EnablePos       |-> c.EnablePos,
   EnableColor     |-> c.EnableColor,
   TimestampFormat |-> "2006-01-02 15:04:05",
   CallerLevel     |-> 10]

\* lfshook.NewHook(conf.LogFile, formatter): a plain file at the path.
PlainHook(c) ==
  [kind      |-> "file",
   Filename  |-> c.LogFile,
   formatter |-> FileFormatter(c)]

\* lfshook.NewHook(&lumberjack.Logger{...}, formatter): a rotating file.
RotateHook(c) ==
  [kind       |-> "lumberjack",
   Filename   |-> c.LogFile,
   MaxSize    |-> c.MaxSize,
   MaxAge     |-> c.MaxDays,
   MaxBackups |-> c.MaxBackups,
   LocalTime  |-> TRUE,
   Compress   |-> c.Compress,
   formatter  |-> FileFormatter(c)]

\* The listener goroutines that have started and have not yet called wg.Done.
Live == {e \in Epochs : listener[e] \notin {"none", "done"}}

\* Mutant of Receiving: a parked goroutine still takes a signal after its
\* context was cancelled.
Receiving_IgnoresCancel(e) == listener[e] = "parked"

\* A goroutine parked in the select whose context is not cancelled: the only
\* receiver a non-blocking send on its unbuffered channel can hand a signal to.
Receiving(e) == listener[e] = "parked" /\ e \notin ctxDone

AllIdle == \A p \in Tasks : task[p].pc = "idle"

\* ------------------------------------------------------ engine operations

\* Mutant of setLogger: with the console disabled the output is left as it is.
setLogger_KeepsOutput ==
  /\ level' = LookupLevel(conf.Level)
  /\ lastWriter' = "conf"
  /\ IF conf.EnableConsole
       THEN /\ formatter' = ConsoleFormatter(conf)
            /\ out' = "stdout"
       ELSE /\ formatter' = formatter
            /\ out' = out

\* setLogger(): level from conf, then console formatter and output.
setLogger ==
  /\ level' = LookupLevel(conf.Level)
  /\ lastWriter' = "conf"
  /\ IF conf.EnableConsole
       THEN /\ formatter' = ConsoleFormatter(conf)
            /\ out' = "stdout"
       ELSE /\ formatter' = formatter
            /\ out' = "nullOutput"

\* addLogger(): level from conf, then a plain file hook.
addLogger ==
  /\ level' = LookupLevel(conf.Level)
  /\ lastWriter' = "conf"
  /\ hooks' = Append(hooks, PlainHook(conf))

\* addRotateLogger(): level from conf, then a rotating file hook.
addRotateLogger ==
  /\ level' = LookupLevel(conf.Level)
  /\ lastWriter' = "conf"
  /\ hooks' = Append(hooks, RotateHook(conf))

\* Mutant of OnceDo: no guard, f runs on every call.
OnceDo_NoGuard(f) == f /\ onceDone' = TRUE

\* once.Do(f): f runs on the first call only, under the lock of once.
OnceDo(f) ==
  IF onceDone
    THEN UNCHANGED <<level, lastWriter, hooks, onceDone>>
    ELSE f /\ onceDone' = TRUE

\* Mutant of AttachFileSink: the rotating hook already for MaxBackups = 1.
AttachFileSink_OffByOne ==
  IF conf.MaxBackups >= 1 THEN OnceDo(addRotateLogger) ELSE OnceDo(addLogger)

\* The choice Reload makes between the two hooks.
AttachFileSink ==
  IF conf.MaxBackups > 1 THEN OnceDo(addRotateLogger) ELSE OnceDo(addLogger)

\* ------------------------------------------------------- Reload / Destroy

At(p, pc) == task[p].pc = pc
Goto(p, pc) == task' = [task EXCEPT ![p].pc = pc]
Return(p) == task' = [task EXCEPT ![p].pc = "idle", ![p].op = "none", ![p].err = "nil"]

\* The collaborator loads a configuration into conf and calls Reload, which
\* first calls Destroy.
CallReload(p, c) ==
  /\ At(p, "idle")
  /\ nextEpoch <= MaxEpochs
  /\ conf' = c
  /\ task' = [task EXCEPT ![p].pc = "d_cancel", ![p].op = "Reload"]
  /\ UNCHANGED <<rendered, lifecycle, engine, lastSig>>

\* The collaborator calls Destroy.
CallDestroy(p) ==
  /\ At(p, "idle")
  /\ task' = [task EXCEPT ![p].pc = "d_cancel", ![p].op = "Destroy"]
  /\ UNCHANGED <<rendered, conf, lifecycle, engine, lastSig>>

\* Mutant of DestroyCancel: the cancel function is never called.
DestroyCancel_NoCancel(p) ==
  /\ At(p, "d_cancel")
  /\ Goto(p, "d_wait")
  /\ UNCHANGED <<rendered, conf, lifecycle, engine, lastSig>>

\* Destroy: if mCancel != nil { mCancel() }
DestroyCancel(p) ==
  /\ At(p, "d_cancel")
  /\ ctxDone' = IF mCancel # NIL THEN ctxDone \cup {mCancel} ELSE ctxDone
  /\ Goto(p, "d_wait")
  /\ UNCHANGED <<rendered, conf, mCancel, wg, nextEpoch, listener, handlers, engine, lastSig>>

\* Mutant of DestroyWait: Destroy does not wait for the listener.
DestroyWait_NoWait(p) ==
  /\ At(p, "d_wait")
  /\ Goto(p, "d_clear")
  /\ UNCHANGED <<rendered, conf, lifecycle, engine, lastSig>>

\* Destroy: wg.Wait() blocks until the counter is zero.
DestroyWait(p) ==
  /\ At(p, "d_wait")
  /\ wg = 0
  /\ Goto(p, "d_clear")
  /\ UNCHANGED <<rendered, conf, lifecycle, engine, lastSig>>

\* Mutant of DestroyClear: Destroy also rearms the once guard.
DestroyClear_ResetsOnce(p) ==
  /\ At(p, "d_clear")
  /\ mCancel' = NIL
  /\ onceDone' = FALSE
  /\ IF task[p].op = "Reload"
       THEN Goto(p, "r_set") /\ UNCHANGED lastSig
       ELSE Return(p) /\ lastSig' = "none"
  /\ UNCHANGED <<rendered, conf, wg, ctxDone, nextEpoch, listener, handlers,
                 level, formatter, out, hooks, lastWriter, overridden>>

\* Destroy: mCancel = nil; return nil (to Reload, or to the caller).
DestroyClear(p) ==
  /\ At(p, "d_clear")
  /\ mCancel' = NIL
  /\ IF task[p].op = "Reload"
       THEN Goto(p, "r_set") /\ UNCHANGED lastSig
       ELSE Return(p) /\ lastSig' = "none"
  /\ UNCHANGED <<rendered, conf, wg, ctxDone, nextEpoch, listener, handlers, engine>>

\* Mutant of ReloadSetLogger: Reload does not call setLogger.
ReloadSetLogger_Skipped(p) ==
  /\ At(p, "r_set")
  /\ Goto(p, "r_once")
  /\ UNCHANGED <<rendered, conf, lifecycle, engine, lastSig>>

\* Reload: setLogger()
ReloadSetLogger(p) ==
  /\ At(p, "r_set")
  /\ setLogger
  /\ Goto(p, "r_once")
  /\ UNCHANGED <<rendered, conf, lifecycle, hooks, onceDone, lastSig, overridden>>

\* Reload: once.Do(addRotateLogger) or once.Do(addLogger)
ReloadOnce(p) ==
  /\ At(p, "r_once")
  /\ AttachFileSink
  /\ Goto(p, "r_ctx")
  /\ UNCHANGED <<rendered, conf, lifecycle, formatter, out, lastSig, overridden>>

\* Reload: ctx, cancel := context.WithCancel(...); wg.Add(1)
ReloadAdd(p) ==
  /\ At(p, "r_ctx")
  /\ nextEpoch <= MaxEpochs
  /\ task' = [task EXCEPT ![p].pc = "r_go", ![p].ctx = nextEpoch]
  /\ nextEpoch' = nextEpoch + 1
  /\ wg' = wg + 1
  /\ UNCHANGED <<rendered, conf, mCancel, ctxDone, listener, handlers, engine, lastSig>>

\* Reload: go func(ctx) { defer wg.Done(); singalChangeLogLevel(ctx) }(ctx)
ReloadGo(p) ==
  /\ At(p, "r_go")
  /\ listener' = [listener EXCEPT ![task[p].ctx] = "start"]
  /\ Goto(p, "r_record")
  /\ UNCHANGED <<rendered, conf, mCancel, wg, ctxDone, nextEpoch, handlers, engine, lastSig>>

\* Mutant of ReloadRecord: the cancel function is not recorded.
ReloadRecord_Lost(p) ==
  /\ At(p, "r_record")
  /\ Return(p)
  /\ lastSig' = "none"
  /\ overridden' = FALSE
  /\ UNCHANGED <<rendered, conf, lifecycle, level, formatter, out, hooks,
                 onceDone, lastWriter>>

\* Reload: mCancel = cancel; return nil
ReloadRecord(p) ==
  /\ At(p, "r_record")
  /\ mCancel' = task[p].ctx
  /\ Return(p)
  /\ lastSig' = "none"
  /\ overridden' = FALSE
  /\ UNCHANGED <<rendered, conf, wg, ctxDone, nextEpoch, listener, handlers,
                 level, formatter, out, hooks, onceDone, lastWriter>>

\* --------------------------------------------------- singalChangeLogLevel

\* signal.Notify(signalUser1, syscall.SIGUSR1) on a fresh unbuffered channel
ListenerNotify1(e) ==
  /\ listener[e] = "start"
  /\ handlers' = [handlers EXCEPT ![SIGUSR1] = @ \cup {e}]
  /\ listener' = [listener EXCEPT ![e] = "notify2"]
  /\ UNCHANGED <<rendered, conf, mCancel, wg, ctxDone, nextEpoch, task, engine, lastSig>>

\* signal.Notify(signalUser2, syscall.SIGUSR2) on a fresh unbuffered channel
ListenerNotify2(e) ==
  /\ listener[e] = "notify2"
  /\ handlers' = [handlers EXCEPT ![SIGUSR2] = @ \cup {e}]
  /\ listener' = [listener EXCEPT ![e] = "select"]
  /\ UNCHANGED <<rendered, conf, mCancel, wg, ctxDone, nextEpoch, task, engine, lastSig>>

\* select: ctx.Done() is ready when the context is cancelled (return);
\* neither signal channel can be ready, so otherwise the goroutine parks.
ListenerSelect(e) ==
  /\ listener[e] = "select"
  /\ listener' = [listener EXCEPT ![e] = IF e \in ctxDone THEN "return" ELSE "parked"]
  /\ UNCHANGED <<rendered, conf, mCancel, wg, ctxDone, nextEpoch, task, handlers, engine, lastSig>>

\* case <-ctx.Done(): the close of Done wakes the parked goroutine; return
ListenerWake(e) ==
  /\ listener[e] = "parked"
  /\ e \in ctxDone
  /\ listener' = [listener EXCEPT ![e] = "return"]
  /\ UNCHANGED <<rendered, conf, mCancel, wg, ctxDone, nextEpoch, task, handlers, engine, lastSig>>

\* case <-signalUser1: log.SetLevel(log.DebugLevel)
\* case <-signalUser2: log.SetLevel(log.ErrorLevel)
ListenerSetLevel(e) ==
  /\ listener[e] \in Signals
  /\ level' = IF listener[e] = SIGUSR1 THEN DebugLevel ELSE ErrorLevel
  /\ lastWriter' = "signal"
  /\ overridden' = TRUE
  /\ listener' = [listener EXCEPT ![e] = "select"]
  /\ UNCHANGED <<rendered, conf, mCancel, wg, ctxDone, nextEpoch, task, handlers,
                 formatter, out, hooks, onceDone, lastSig>>

\* defer wg.Done()
ListenerDone(e) ==
  /\ listener[e] = "return"
  /\ wg' = wg - 1
  /\ listener' = [listener EXCEPT ![e] = "done"]
  /\ UNCHANGED <<rendered, conf, mCancel, ctxDone, nextEpoch, task, handlers, engine, lastSig>>

\* os/signal delivers signal s: a non-blocking send on every channel notified
\* for s. The channels are unbuffered, so the send succeeds only for a
\* goroutine parked in its select; otherwise the signal is dropped.
Deliver(s) ==
  /\ listener' = [e \in Epochs |->
                    IF e \in handlers[s] /\ Receiving(e) THEN s ELSE listener[e]]
  /\ lastSig' = s
  /\ UNCHANGED <<rendered, conf, mCancel, wg, ctxDone, nextEpoch, task, handlers, engine>>

ListenerStep(e) ==
  \/ ListenerNotify1(e)
  \/ ListenerNotify2(e)
  \/ ListenerSelect(e)
  \/ ListenerWake(e)
  \/ ListenerSetLevel(e)
  \/ ListenerDone(e)

\* The steps of a call in progress.
TaskStep(p) ==
  \/ DestroyCancel(p)
  \/ DestroyWait(p)
  \/ DestroyClear(p)
  \/ ReloadSetLogger(p)
  \/ ReloadOnce(p)
  \/ ReloadAdd(p)
  \/ ReloadGo(p)
  \/ ReloadRecord(p)

Next ==
  \/ \E p \in Tasks, c \in Confs : CallReload(p, c)
  \/ \E p \in Tasks : CallDestroy(p)
  \/ \E p \in Tasks : TaskStep(p)
  \/ \E e \in Epochs : ListenerStep(e)
  \/ \E s \in Signals : Deliver(s)

Spec == Init /\ [][Next]_vars

\* The Go scheduler runs every runnable goroutine: a call in progress and a
\* started listener keep taking their steps.
FairSpec ==
  /\ Spec
  /\ \A p \in Tasks : WF_vars(TaskStep(p))
  /\ \A e \in Epochs : WF_vars(ListenerStep(e))

\* nullOutput.Write drops the bytes and returns (0, nil); os.Stdout takes them.
Write(o, p) ==
  IF o = "nullOutput"
    THEN [n |-> 0, err |-> "nil", console |-> <<>>]
    ELSE [n |-> Len(p), err |-> "nil", console |-> p]

\* --------------------------------------------------- concurrent callers

\* The configurations loaded when two tasks call concurrently.
ConcConfs ==
  {DefaultConf, [DefaultConf EXCEPT !.Level = "debug", !.MaxBackups = 1]}

\* Reload and Destroy are exported and take no lock: any task may call them
\* while another call is in progress, and their statements interleave.
NextConc ==
  \/ \E p \in Callers, c \in ConcConfs : CallReload(p, c)
  \/ \E p \in Callers : CallDestroy(p)
  \/ \E p \in Callers : TaskStep(p)
  \/ \E e \in Epochs : ListenerStep(e)
  \/ \E s \in Signals : Deliver(s)

SpecConc == Init /\ [][NextConc]_vars

\* ------------------------------------------------- LogFormatter.Format

\* Text is a sequence of one-character strings.
ESC == "\\x1b"
NL  == "\\n"

\* The ANSI colour codes of the const block.
nocolor == 0
red     == 31
green   == 32
yellow  == 33
blue    == 36
gray    == 37

\* The minimum width of the message field in the format "%-44s ".
FieldWidth == 44

\* How far beyond FieldWidth the longest message of the model reaches.
MsgOver == 1

PanicLevel == "panic"
FatalLevel == "fatal"
TraceLevel == "trace"

\* Every level a logrus entry can carry.
EntryLevels ==
  {PanicLevel, FatalLevel, ErrorLevel, WarnLevel, InfoLevel, DebugLevel, TraceLevel}

\* entry.Level.String(): the lower-case name of the level, as text.
LevelString(l) ==
  CASE l = PanicLevel -> <<"p", "a", "n", "i", "c">>
    [] l = FatalLevel -> <<"f", "a", "t", "a", "l">>
    [] l = ErrorLevel -> <<"e", "r", "r", "o", "r">>
    [] l = WarnLevel  -> <<"w", "a", "r", "n", "i", "n", "g">>
    [] l = InfoLevel  -> <<"i", "n", "f", "o">>
    [] l = DebugLevel -> <<"d", "e", "b", "u", "g">>
    [] l = TraceLevel -> <<"t", "r", "a", "c", "e">>

LowerLetters ==
  <<"a", "b", "c", "d", "e", "f", "g", "h", "i", "j", "k", "l", "m",
    "n", "o", "p", "q", "r", "s", "t", "u", "v", "w", "x", "y", "z">>
UpperLetters ==
  <<"A", "B", "C", "D", "E", "F", "G", "H", "I", "J", "K", "L", "M",
    "N", "O", "P", "Q", "R", "S", "T", "U", "V", "W", "X", "Y", "Z">>

\* strings.ToUpper: lower-case letters become upper-case, the rest is kept.
ToUpper(t) ==
  [i \in DOMAIN t |->
     IF \E k \in DOMAIN LowerLetters : LowerLetters[k] = t[i]
       THEN UpperLetters[CHOOSE k \in DOMAIN LowerLetters : LowerLetters[k] = t[i]]
       ELSE t[i]]

Digits == <<"0", "1", "2", "3", "4", "5", "6", "7", "8", "9">>

\* The verb %d on a non-negative int: its decimal digits.
RECURSIVE Itoa(_)
Itoa(n) ==
  IF n < 10 THEN <<Digits[n + 1]>>
  ELSE Itoa(n \div 10) \o <<Digits[(n % 10) + 1]>>

\* Text of n spaces.
Spaces(n) == [i \in 1..n |-> " "]

\* Mutant of PadRight: the message is cut to the width (as "%-44.44s" would).
PadRight_Truncates(t, w) ==
  IF Len(t) < w THEN t \o Spaces(w - Len(t)) ELSE SubSeq(t, 1, w)

\* The verb %-44s: the text left-justified, padded with spaces up to the
\* width, never cut.
PadRight(t, w) ==
  IF Len(t) < w THEN t \o Spaces(w - Len(t)) ELSE t

\* path.Base: the last element of the path, trailing slashes removed; "." for
\* the empty path and "/" for a path of slashes only.
Base(path) ==
  IF path = <<>> THEN <<".">>
  ELSE
    LET kept == {i \in DOMAIN path : path[i] # "/"}
    IN  IF kept = {} THEN <<"/">>
        ELSE
          LET last == CHOOSE i \in kept : \A j \in kept : j <= i
              slashes == {i \in 1..last : path[i] = "/"}
              first == IF slashes = {} THEN 1
                       ELSE (CHOOSE i \in slashes : \A j \in slashes : j <= i) + 1
          IN  SubSeq(path, first, last)

\* runtime.Caller(skip) on a call stack given innermost frame first (frame 1
\* is colored itself, skip = 0): the frame and ok, or ok = false when the
\* stack is not that deep.
Caller(stack, skip) ==
  IF skip < Len(stack)
    THEN [file |-> stack[skip + 1].file, line |-> stack[skip + 1].line, ok |-> TRUE]
    ELSE [file |-> <<>>, line |-> 0, ok |-> FALSE]

\* entry.Time.Format(layout) for the layouts of the model: the reference date
\* and clock of the layout are replaced by those of the time.
TimeFormat(t, layout) ==
  CASE layout = "2006-01-02 15:04:05" -> t.date \o <<" ">> \o t.clock
    [] layout = "15:04:05"            -> t.clock

\* Mutant of LevelColor: the Warn case is missing and falls to the default.
LevelColor_NoWarn(l) ==
  CASE l = DebugLevel -> gray
    [] l \in {ErrorLevel, FatalLevel, PanicLevel} -> red
    [] OTHER -> blue

\* colored: the switch on entry.Level that picks levelColor.
LevelColor(l) ==
  CASE l = DebugLevel -> gray
    [] l = WarnLevel -> yellow
    [] l \in {ErrorLevel, FatalLevel, PanicLevel} -> red
    [] OTHER -> blue

\* colored: levelText, the first four characters of the upper-cased level
\* name, in brackets, with the colour escape when EnableColor is set.
LevelText(f, entry) ==
  LET tag == SubSeq(ToUpper(LevelString(entry.Level)), 1, 4)
  IN  IF f.EnableColor
        THEN <<"[", ESC, "[">> \o Itoa(LevelColor(entry.Level)) \o <<"m">> \o tag
               \o <<ESC, "[", "0", "m", "]", " ">>
        ELSE <<"[">> \o tag \o <<"]", " ">>

\* colored: what it appends to the buffer.
colored(f, entry, timestampFormat) ==
  LET c    == Caller(entry.stack, f.CallerLevel)
      file == Base(IF c.ok THEN c.file ELSE <<"u", "n", "k", "n", "o", "w", "n">>)
      line == IF c.ok THEN c.line ELSE 0
      timePrefix == IF f.EnableTime
                      THEN TimeFormat(entry.Time, timestampFormat) \o <<" ">>
                      ELSE <<>>
      pos == IF f.EnablePos
               THEN <<"[">> \o file \o <<":">> \o Itoa(line) \o <<"]", " ">>
               ELSE <<>>
  IN  timePrefix \o pos \o LevelText(f, entry)
        \o PadRight(entry.Message, FieldWidth) \o <<" ">>

\* Format: the entry's buffer when it has one (logrus hands it over reset),
\* a new buffer otherwise; colored, then the newline; the buffer's bytes.
Format(f, entry) ==
  LET b == IF entry.Buffer.isNil THEN <<>> ELSE entry.Buffer.bytes
  IN  b \o colored(f, entry, f.TimestampFormat) \o <<NL>>

\* --------------------------------------------------- inputs of Format

\* A call stack of n frames: the application's logging call is frame 8, the
\* frames below and above it belong to libraries.
StackOf(n) ==
  [i \in 1..n |->
     IF i = 8
       THEN [file |-> <<"/", "s", "/", "m", "a", "i", "n", ".", "g", "o">>, line |-> 12]
       ELSE [file |-> <<"/", "l", "/", "e", ".", "g", "o">>, line |-> 100 + i]]

Stacks == {StackOf(3), StackOf(9), StackOf(12)}

Messages ==
  {<<>>, <<"a">>, [i \in 1..FieldWidth |-> "m"], [i \in 1..(FieldWidth + MsgOver) |-> "m"]}

Entries ==
  [Level   : EntryLevels,
   Message : Messages,
   Time    : {[date  |-> <<"2", "0", "2", "0", "-", "0", "1", "-", "0", "2">>,
               clock |-> <<"0", "3", ":", "0", "4", ":", "0", "5">>]},
   stack   : Stacks,
   Buffer  : {[isNil |-> TRUE, bytes |-> <<>>], [isNil |-> FALSE, bytes |-> <<>>]}]

\* Every LogFormatter value the fields allow, at the two call depths in use.
Formatters ==
  [kind            : {"LogFormatter"},
   EnableTime      : BOOLEAN,
   EnablePos       : BOOLEAN,
   EnableColor     : BOOLEAN,
   TimestampFormat : {"2006-01-02 15:04:05", "15:04:05"},
   CallerLevel     : {7, 10}]

\* A record on its way to a formatter: logrus is about to call f.Format(entry).
InitFormat ==
  /\ InitPackage
  /\ rendered \in [kind : {"entry"}, f : Formatters, entry : Entries, line : {<<>>}]

\* logrus calls f.Format(entry) and gets the line.
Render ==
  /\ rendered.kind = "entry"
  /\ rendered' = [rendered EXCEPT !.kind = "record",
                                  !.line = Format(rendered.f, rendered.entry)]
  /\ UNCHANGED <<conf, lifecycle, engine, task, lastSig>>

NextFormat == Render

\* Format applied to every formatter and entry of the model.
SpecFormat == InitFormat /\ [][NextFormat]_vars

\* ================================================================ claims

\* A call of Destroy (alone or as the first step of Reload) is in progress.
InDestroy(p) == task[p].pc \in {"d_cancel", "d_wait", "d_clear"}

\* The level a delivered signal asks for.
LevelFor(s) == IF s = SIGUSR1 THEN DebugLevel ELSE ErrorLevel

\* ---- C1
\* C1: with Reload and Destroy called one after another and signals arriving
\* at any time, at most one listener goroutine is live in every state.
C1_AtMostOneListener == Cardinality(Live) <= 1

\* A second epoch's listener is live after the first epoch's has exited.
C1_Witness ==
  /\ nextEpoch > 2
  /\ Cardinality(Live) = 1
  /\ \E e \in Epochs : listener[e] = "done"

\* ---- C2
\* C2: from the return of Destroy until the next Reload starts its listener
\* (mCancel is nil and no Reload is about to record its listener), no listener
\* is live and no step other than Reload's own configuration changes level.
C2_QuietAfterDestroy ==
  [][(mCancel = NIL /\ \A p \in Tasks : task[p].pc # "r_record")
       => /\ Live = {}
          /\ (level' # level => lastWriter' = "conf")
          /\ (lastWriter' = "signal" => lastWriter = "signal")]_vars

\* Destroy has returned after an epoch, SIGUSR1 was delivered since, and the
\* level is not Debug.
C2_Witness ==
  /\ AllIdle
  /\ mCancel = NIL
  /\ nextEpoch > 1
  /\ handlers[SIGUSR1] # {}
  /\ lastSig = SIGUSR1
  /\ level # DebugLevel

\* ---- C3
\* C3: when Destroy has returned no signal registration of the ended epoch
\* remains, and at most one registration per signal ever exists.
C3_Deregistered ==
  /\ (AllIdle /\ mCancel = NIL) => \A s \in Signals : handlers[s] = {}
  /\ \A s \in Signals : Cardinality(handlers[s]) <= 1

\* ---- C4
\* C4: at most one file hook is ever attached, and exactly one once a Reload
\* has passed its once.Do, whatever the configurations of the Reloads were.
C4_OneFileSink ==
  /\ Len(hooks) <= 1
  /\ nextEpoch > 1 => Len(hooks) = 1

\* Two Reloads have returned, the first with MaxBackups <= 1 and the latest
\* with MaxBackups > 1, and one hook is attached.
C4_Witness ==
  /\ AllIdle
  /\ nextEpoch > 2
  /\ Len(hooks) = 1
  /\ hooks[1].kind = "file"
  /\ conf.MaxBackups > 1

\* ---- C5
\* C5: the file hook is attached by the first Reload from its configuration
\* (rotating iff MaxBackups > 1, with that configuration's path, rotation
\* parameters and formatter flags), and no later step changes it.
C5_SinkFromFirstReload ==
  [][/\ hooks # <<>> => hooks' = hooks
     /\ (hooks = <<>> /\ hooks' # <<>>) =>
          /\ nextEpoch = 1
          /\ Len(hooks') = 1
          /\ hooks'[1].kind = (IF conf.MaxBackups > 1 THEN "lumberjack" ELSE "file")
          /\ hooks'[1].Filename = conf.LogFile
          /\ hooks'[1].formatter.EnableTime = conf.EnableTime
          /\ hooks'[1].formatter.EnablePos = conf.EnablePos
          /\ hooks'[1].formatter.EnableColor = conf.EnableColor
          /\ hooks'[1].kind = "lumberjack" =>
               /\ hooks'[1].MaxSize = conf.MaxSize
               /\ hooks'[1].MaxAge = conf.MaxDays
               /\ hooks'[1].MaxBackups = conf.MaxBackups
               /\ hooks'[1].Compress = conf.Compress]_vars

\* A later Reload with MaxBackups > 1 and another path has returned, and the
\* hook is still the plain file of the first Reload (MaxBackups = 1).
C5_Witness ==
  /\ AllIdle
  /\ nextEpoch > 2
  /\ conf.MaxBackups > 1
  /\ hooks # <<>>
  /\ hooks[1].kind = "file"
  /\ hooks[1].Filename # conf.LogFile

\* ---- C6
\* C6: while the epoch of a returned Reload is live, no delivered signal is
\* lost: whenever its listener is back waiting in the select, level is the
\* level asked for by the last signal delivered since Reload returned.
C6_NoSignalLost ==
  (AllIdle /\ mCancel # NIL /\ lastSig # "none" /\ Receiving(mCancel))
    => level = LevelFor(lastSig)

\* ---- C7
\* C7: a Destroy called while no epoch is live (mCancel is nil) never blocks
\* (the wait group is at zero) and no step taken during it changes the
\* configuration, the lifecycle state or the log engine.
C7_DestroyNoEpochNoOp ==
  [][\A p \in Tasks :
       (task[p].op = "Destroy" /\ InDestroy(p) /\ mCancel = NIL)
         => (wg = 0 /\ UNCHANGED <<rendered, conf, lifecycle, engine>>)]_vars

\* A Destroy directly after a previous Reload and Destroy is about to return.
C7_Witness ==
  \E p \in Tasks :
    /\ task[p].op = "Destroy"
    /\ task[p].pc = "d_clear"
    /\ mCancel = NIL
    /\ nextEpoch > 1

\* ---- C8
\* C8: under fair scheduling every Destroy in progress (alone or inside
\* Reload) eventually returns, whatever signals arrive.
C8_DestroyReturns == \A p \in Tasks : InDestroy(p) ~> ~InDestroy(p)

\* A Destroy that cancelled a live epoch has been released by the wait group,
\* a signal having been delivered since the previous call returned.
C8_Witness ==
  \E p \in Tasks :
    /\ task[p].pc = "d_clear"
    /\ mCancel # NIL
    /\ lastSig # "none"

\* ---- C9
\* C9 as stated: a listener whose context is cancelled performs no further
\* write to level.
C9_NoWriteAfterCancel ==
  [][\A e \in Epochs :
       (e \in ctxDone /\ listener[e] \in Signals) => listener'[e] = listener[e]]_vars

\* C9 amended: a listener whose context is cancelled receives no further
\* signal, and the select it evaluates next takes the cancellation case; only
\* a signal received before the cancellation can still be written.
C9_NoReceiveAfterCancel ==
  [][\A e \in Epochs :
       e \in ctxDone =>
         /\ listener'[e] \in Signals => listener'[e] = listener[e]
         /\ (listener[e] \in {"select", "parked"} /\ listener'[e] # listener[e])
              => listener'[e] = "return"]_vars

\* A cancelled listener has taken the cancellation case although SIGUSR1 was
\* delivered, and level is not Debug.
C9_Witness ==
  \E e \in Epochs :
    /\ e \in ctxDone
    /\ listener[e] = "return"
    /\ lastSig = SIGUSR1
    /\ level # DebugLevel

\* ---- C10
\* strings.ToLower on the names of LevelNames: the case-insensitive reading.
CaseFold(name) ==
  CASE name \in {"debug", "DEBUG", "Debug"} -> "debug"
    [] name \in {"info", "INFO"}            -> "info"
    [] name \in {"warn", "WARN", "Warn"}    -> "warn"
    [] name \in {"error", "ERROR"}          -> "error"
    [] OTHER                                -> name

\* The severity a lower-case level name stands for.
SeverityOf(name) ==
  CASE name = "debug" -> DebugLevel
    [] name = "info"  -> InfoLevel
    [] name = "warn"  -> WarnLevel
    [] name = "error" -> ErrorLevel

\* Reload has run setLogger with the current conf and nothing but the
\* configuration has written level since.
LevelFromConf ==
  /\ lastWriter = "conf"
  /\ \/ \E p \in Tasks : task[p].pc \in {"r_once", "r_ctx", "r_go", "r_record"}
     \/ AllIdle /\ mCancel # NIL

\* C10 as stated: a level name in any letter casing sets the level it names.
C10_AnyCasing ==
  (LevelFromConf /\ CaseFold(conf.Level) \in {"debug", "info", "warn", "error"})
    => level = SeverityOf(CaseFold(conf.Level))

\* C10 amended: a level name written entirely in lower case or entirely in
\* upper case sets the level it names.
C10_LowerOrUpper ==
  (LevelFromConf /\ conf.Level \in {"debug", "info", "warn", "error",
                                    "DEBUG", "INFO", "WARN", "ERROR"})
    => level = SeverityOf(CaseFold(conf.Level))

\* A later Reload with the upper-case name WARN has returned with level Warn.
C10_Witness ==
  /\ AllIdle
  /\ mCancel # NIL
  /\ nextEpoch > 2
  /\ conf.Level = "WARN"
  /\ lastWriter = "conf"
  /\ level = WarnLevel

\* ---- C11
\* The names that are entries of the level table.
TableNames == {"debug", "info", "warn", "error", "DEBUG", "INFO", "WARN", "ERROR"}

\* C11: a level name that is no entry of the level table makes Reload set
\* level to Info, whatever level was before, on the first Reload and on every
\* later one; and every call that has returned has returned nil.
C11_UnknownNameGivesInfo ==
  /\ (LevelFromConf /\ conf.Level \notin TableNames) => level = InfoLevel
  /\ \A p \in Tasks : task[p].pc = "idle" => task[p].err \in {"none", "nil"}
  /\ \A p \in Tasks : (task[p].pc = "idle" /\ nextEpoch > 1) => task[p].err = "nil"

\* A later Reload with the name "trace" is about to return with level Info,
\* a signal having set level to Debug or Error before it.
C11_Witness ==
  \E p \in Tasks :
    /\ task[p].pc = "r_record"
    /\ nextEpoch > 2
    /\ overridden
    /\ lastWriter = "conf"
    /\ conf.Level = "trace"
    /\ level = InfoLevel

HasEscape(t) == \E i \in DOMAIN t : t[i] = ESC

\* A record as the file hook gets it, with the stack as deep as its depth needs.
SampleEntries == {e \in Entries : e.Message = <<"a">> /\ Len(e.stack) > 10}

Done == rendered.kind = "record"

\* The position segment Format is to write for formatter f and entry e.
ExpectedPos(f, e) ==
  IF f.CallerLevel < Len(e.stack)
    THEN <<"[">> \o Base(e.stack[f.CallerLevel + 1].file) \o <<":">>
           \o Itoa(e.stack[f.CallerLevel + 1].line) \o <<"]", " ">>
    ELSE <<"[", "u", "n", "k", "n", "o", "w", "n", ":", "0", "]", " ">>

\* The width of the message field: max(len(message), 44).
FieldLen(e) == IF Len(e.Message) > 44 THEN Len(e.Message) ELSE 44

\* C13: the line is, in this order, the timestamp and a space iff
\* enable-timestamp, "[file:line] " iff enable-position, the bracketed tag and
\* a space, the message left-justified in max(len(message), 44) characters,
\* one space and one newline; e.g. timestamp only, Info, message "a" gives
\* "<timestamp> [INFO] a", 43 spaces, " \n".
C13_LineLayout ==
  Done =>
    LET f == rendered.f
        e == rendered.entry
        t == rendered.line
        stamp == IF f.EnableTime
                   THEN TimeFormat(e.Time, f.TimestampFormat) \o <<" ">> ELSE <<>>
        pos   == IF f.EnablePos THEN ExpectedPos(f, e) ELSE <<>>
        head  == Len(t) - FieldLen(e) - 2
    IN  /\ head >= Len(stamp) + Len(pos) + 6
        /\ SubSeq(t, 1, Len(stamp)) = stamp
        /\ SubSeq(t, Len(stamp) + 1, Len(stamp) + Len(pos)) = pos
        /\ t[Len(stamp) + Len(pos) + 1] = "["
        /\ SubSeq(t, head - 1, head) = <<"]", " ">>
        /\ SubSeq(t, head + 1, head + Len(e.Message)) = e.Message
        /\ \A i \in (head + Len(e.Message) + 1)..(Len(t) - 1) : t[i] = " "
        /\ t[Len(t)] = NL
        /\ \A i \in 1..(Len(t) - 1) : t[i] # NL
        /\ (f.EnableTime /\ ~f.EnablePos /\ ~f.EnableColor
              /\ e.Level = InfoLevel /\ e.Message = <<"a">>)
             => t = stamp \o <<"[", "I", "N", "F", "O", "]", " ", "a">>
                      \o [i \in 1..43 |-> " "] \o <<" ", NL>>

\* A message longer than the field has been formatted with the timestamp and
\* the position, uncut.
C13_Witness ==
  /\ Done
  /\ rendered.f.EnableTime
  /\ rendered.f.EnablePos
  /\ Len(rendered.entry.Message) > 44
  /\ Len(rendered.line) > Len(rendered.entry.Message) + 2

\* ---- C14
\* The four-letter tag of a level.
ExpectedTag(l) ==
  CASE l = DebugLevel -> <<"D", "E", "B", "U">>
    [] l = InfoLevel  -> <<"I", "N", "F", "O">>
    [] l = WarnLevel  -> <<"W", "A", "R", "N">>
    [] l = ErrorLevel -> <<"E", "R", "R", "O">>
    [] l = FatalLevel -> <<"F", "A", "T", "A">>
    [] l = PanicLevel -> <<"P", "A", "N", "I">>
    [] l = TraceLevel -> <<"T", "R", "A", "C">>

\* The colour code of a level, as its two digits.
ExpectedCode(l) ==
  CASE l = DebugLevel -> <<"3", "7">>
    [] l = WarnLevel  -> <<"3", "3">>
    [] l \in {ErrorLevel, FatalLevel, PanicLevel} -> <<"3", "1">>
    [] OTHER -> <<"3", "6">>

\* The tag segment: coloured or plain.
ExpectedSegment(colour, l) ==
  IF colour
    THEN <<"[", ESC, "[">> \o ExpectedCode(l) \o <<"m">> \o ExpectedTag(l)
           \o <<ESC, "[", "0", "m", "]", " ">>
    ELSE <<"[">> \o ExpectedTag(l) \o <<"]", " ">>

\* C14: the tag segment of the line, which ends where the message field
\* begins, is "[" ESC "[" code "m" TAG ESC "[0m] " with the level's code when
\* enable-color is set and "[TAG] " without any escape otherwise.
C14_TagSegment ==
  Done =>
    LET f == rendered.f
        e == rendered.entry
        t == rendered.line
        seg  == ExpectedSegment(f.EnableColor, e.Level)
        head == Len(t) - FieldLen(e) - 2
    IN  /\ head >= Len(seg)
        /\ SubSeq(t, head - Len(seg) + 1, head) = seg
        /\ ~f.EnableColor => ~HasEscape(t)

\* A Warn record has been formatted with colour.
C14_Witness ==
  /\ Done
  /\ rendered.f.EnableColor
  /\ rendered.entry.Level = WarnLevel
  /\ HasEscape(rendered.line)

\* ---- C15
\* setLogger has run for the current conf: a Reload has passed it and no
\* Reload with a newer conf is still on its way to it.
SetLoggerRan ==
  /\ \A p \in Tasks :
       ~(task[p].op = "Reload" /\ task[p].pc \in {"d_cancel", "d_wait", "d_clear", "r_set"})
  /\ \/ nextEpoch > 1
     \/ \E p \in Tasks : task[p].pc \in {"r_once", "r_ctx"}

\* C15: once setLogger has run for the latest configuration the output is
\* stdout iff that configuration has enable-console, and otherwise the discard
\* output, whose Write reports no error and passes nothing on.
C15_ConsoleFollowsConf ==
  SetLoggerRan =>
    /\ out = (IF conf.EnableConsole THEN "stdout" ELSE "nullOutput")
    /\ Write(out, <<"a", NL>>).err = "nil"
    /\ (Write(out, <<"a", NL>>).console = <<>>) <=> ~conf.EnableConsole

\* A Reload with the console enabled was followed by one with it disabled.
C15_Witness ==
  /\ AllIdle
  /\ nextEpoch > 2
  /\ ~conf.EnableConsole
  /\ formatter.kind = "LogFormatter"
  /\ out = "nullOutput"

\* ---- C16
\* C16: after Reload with enable-console the console formatter's
\* enable-timestamp, enable-position and enable-color equal the configuration's.
C16_ConsoleFlagsFromConf ==
  (SetLoggerRan /\ conf.EnableConsole) =>
    /\ formatter.EnableTime = conf.EnableTime
    /\ formatter.EnablePos = conf.EnablePos
    /\ formatter.EnableColor = conf.EnableColor

\* ---- C17
\* C17: the timestamp-format of the console formatter Reload installs, and of
\* the file formatter the first Reload attaches, is the configuration's.
C17_TimestampFormatFromConf ==
  /\ (SetLoggerRan /\ conf.EnableConsole) =>
       formatter.TimestampFormat = conf.TimestampFormat
  /\ (nextEpoch = 1 /\ hooks # <<>>) =>
       hooks[1].formatter.TimestampFormat = conf.TimestampFormat

\* ---- C18
\* The level the configuration asks for: the table's, Info for other names.
ConfiguredLevel(name) ==
  IF name \in TableNames THEN SeverityOf(CaseFold(name)) ELSE InfoLevel

\* C18: when a signal has overridden level, the next Reload puts level back to
\* the configured one: from its setLogger until its listener starts nothing
\* but the configuration writes level, and up to its return level is the
\* configured one unless the new listener has handled a signal.
C18_OverrideResetByReload ==
  /\ (\E p \in Tasks : task[p].pc \in {"r_once", "r_ctx", "r_go"}) => lastWriter = "conf"
  /\ (overridden /\ lastWriter = "conf"
        /\ \E p \in Tasks : task[p].pc \in {"r_once", "r_ctx", "r_go", "r_record"})
       => level = ConfiguredLevel(conf.Level)

\* A later Reload with level-name warn is about to return with level Warn
\* after a signal had overridden level.
C18_Witness ==
  \E p \in Tasks :
    /\ task[p].pc = "r_record"
    /\ nextEpoch > 2
    /\ overridden
    /\ lastWriter = "conf"
    /\ conf.Level = "warn"
    /\ level = WarnLevel

\* ---- C19
\* C19: a step of Destroy changes nothing but the epoch state: it may close
\* the recorded context and clear mCancel, and leaves the configuration, the
\* console output and formatter, the hooks, the once guard and level alone.
C19_DestroyFrame ==
  [][\A p \in Tasks :
       (InDestroy(p) /\ task'[p].pc # task[p].pc) =>
         /\ UNCHANGED <<conf, out, formatter, hooks, onceDone, level, lastWriter>>
         /\ UNCHANGED <<wg, nextEpoch, listener, handlers>>
         /\ mCancel' \in {mCancel, NIL}
         /\ ctxDone \subseteq ctxDone'
         /\ ctxDone' \subseteq ctxDone \cup {mCancel}]_vars

\* Destroy has returned after an epoch in which SIGUSR1 set level to Debug:
\* the level, the hook and the once guard are as they were.
C19_Witness ==
  /\ AllIdle
  /\ mCancel = NIL
  /\ nextEpoch > 1
  /\ lastWriter = "signal"
  /\ level = DebugLevel
  /\ Len(hooks) = 1
  /\ onceDone

\* ---- C20
\* C20: with Reload and Destroy called concurrently by different tasks, at
\* most one listener is live; when no call is in progress a live listener is
\* the one whose cancel function is recorded; and a Destroy that waits while
\* no other call is running waits only for cancelled listeners, so it returns.
C20_ConcurrentSound ==
  /\ Cardinality(Live) <= 1
  /\ (\A p \in Callers : task[p].pc = "idle") => Live \subseteq {mCancel}
  /\ ((\A p \in Callers : task[p].pc \in {"idle", "d_wait"})
        /\ (\E p \in Callers : task[p].pc = "d_wait"))
       => Live \subseteq ctxDone

====
